---- MODULE Spec2Model ----
(***************************************************************************)
(* Model of dropbox-blueprints: download_file.py and upload_file.py.       *)
(*                                                                         *)
(* Strings are sequences of one-character strings, so that path handling   *)
(* (basename, normpath, strip, the insertion of a file number before the   *)
(* first '.') is computed character by character as the code does.         *)
(***************************************************************************)
EXTENDS Integers, Sequences, FiniteSets, TLC

VARIABLES
    script,        \* "download" or "upload": which script's main() runs
    args,          \* the parsed command line (get_args)
    pc,            \* position of main()
    client,        \* TRUE once main() holds the client get_dropbox_client returned
    matching,      \* matching_file_names of regex_match mode
    index,         \* index of the for loop over matching_file_names
    transfers,     \* main()'s calls of download_dropbox_file / upload_dropbox_file
    calls,         \* SDK calls made so far, in order
    up,            \* upload_dropbox_file: state of one upload
    ls             \* find_dropbox_file_names: state of one listing

vars == <<script, args, pc, client, matching, index, transfers, calls, up, ls>>

\* None, for an optional str: a sequence no string equals (its element is no character)
NoneVal == <<"None">>

\* None, for the optional int file_number (file numbers are never negative)
NoneNum == -1

-----------------------------------------------------------------------------
(* Strings *)

SLASH == "/"
DOT == "."

Digit(d) == CASE d = 0 -> "0" [] d = 1 -> "1" [] d = 2 -> "2" [] d = 3 -> "3"
              [] d = 4 -> "4" [] d = 5 -> "5" [] d = 6 -> "6" [] d = 7 -> "7"
              [] d = 8 -> "8" [] d = 9 -> "9"

RECURSIVE PosStr(_)
PosStr(n) == IF n < 10 THEN <<Digit(n)>> ELSE PosStr(n \div 10) \o <<Digit(n % 10)>>

\* f'{file_number}' for an int
Str(n) == IF n < 0 THEN <<"-">> \o PosStr(-n) ELSE PosStr(n)

Contains(s, c) == \E i \in 1..Len(s) : s[i] = c

FirstIndex(s, c) == CHOOSE i \in 1..Len(s) : s[i] = c /\ \A j \in 1..(i - 1) : s[j] # c

LastIndex(s, c) == CHOOSE i \in 1..Len(s) : s[i] = c /\ \A j \in (i + 1)..Len(s) : s[j] # c

StartsWith(s, c) == Len(s) > 0 /\ s[1] = c

\* str.strip('/')
RECURSIVE LStrip(_)
LStrip(s) == IF StartsWith(s, SLASH) THEN LStrip(Tail(s)) ELSE s

RECURSIVE RStrip(_)
RStrip(s) == IF Len(s) > 0 /\ s[Len(s)] = SLASH THEN RStrip(SubSeq(s, 1, Len(s) - 1)) ELSE s

Strip(s) == RStrip(LStrip(s))

\* str.split('/')
RECURSIVE Split(_)
Split(s) ==
    IF Contains(s, SLASH)
    THEN LET i == FirstIndex(s, SLASH)
         IN  <<SubSeq(s, 1, i - 1)>> \o Split(SubSeq(s, i + 1, Len(s)))
    ELSE <<s>>

\* '/'.join(comps)
RECURSIVE Join(_)
Join(comps) ==
    IF Len(comps) = 0 THEN <<>>
    ELSE IF Len(comps) = 1 THEN comps[1]
    ELSE comps[1] \o <<SLASH>> \o Join(Tail(comps))

DOTDOT == <<DOT, DOT>>

\* the component loop of posixpath.normpath
RECURSIVE NormComps(_, _, _)
NormComps(comps, new_comps, initial_slashes) ==
    IF Len(comps) = 0 THEN new_comps
    ELSE LET comp == comps[1]
             next == IF comp = <<>> \/ comp = <<DOT>> THEN new_comps
                     ELSE IF \/ comp # DOTDOT
                             \/ (initial_slashes = 0 /\ Len(new_comps) = 0)
                             \/ (Len(new_comps) > 0 /\ new_comps[Len(new_comps)] = DOTDOT)
                          THEN Append(new_comps, comp)
                     ELSE IF Len(new_comps) > 0
                          THEN SubSeq(new_comps, 1, Len(new_comps) - 1)
                     ELSE new_comps
         IN  NormComps(Tail(comps), next, initial_slashes)

\* os.path.normpath (posix)
normpath(path) ==
    IF Len(path) = 0 THEN <<DOT>>
    ELSE LET initial_slashes ==
                 IF ~StartsWith(path, SLASH) THEN 0
                 ELSE IF Len(path) >= 2 /\ path[2] = SLASH /\ ~(Len(path) >= 3 /\ path[3] = SLASH)
                      THEN 2 ELSE 1
             body == Join(NormComps(Split(path), <<>>, initial_slashes))
             lead == IF initial_slashes = 2 THEN <<SLASH, SLASH>>
                     ELSE IF initial_slashes = 1 THEN <<SLASH>> ELSE <<>>
             out == lead \o body
         IN  IF Len(out) = 0 THEN <<DOT>> ELSE out

\* os.path.basename (posix): what follows the last '/'
basename(path) ==
    IF Contains(path, SLASH) THEN SubSeq(path, LastIndex(path, SLASH) + 1, Len(path))
    ELSE path

-----------------------------------------------------------------------------
(* Path derivation, the same code in both scripts *)

extract_file_name_from_source_full_path(source_full_path) == basename(source_full_path)

\* re.sub(r'\.', f'_{file_number}.', name, 1) when the name holds a '.',
\* f'{name}_{file_number}' otherwise
enumerate_destination_file_name(destination_file_name, file_number) ==
    IF Contains(destination_file_name, DOT)
    THEN LET i == FirstIndex(destination_file_name, DOT)
         IN  SubSeq(destination_file_name, 1, i - 1) \o <<"_">> \o Str(file_number)
                 \o SubSeq(destination_file_name, i, Len(destination_file_name))
    ELSE destination_file_name \o <<"_">> \o Str(file_number)

\* Python truthiness of an optional str and of an optional int
TruthyStr(x) == x # NoneVal /\ x # <<>>

TruthyNum(n) == n # NoneNum /\ n # 0

\* mutant: file_number defaults to 1, as it does in enumerate_destination_file_name
determine_destination_file_name_default_1(source_full_path, destination_file_name, file_number) ==
    IF TruthyStr(destination_file_name)
    THEN enumerate_destination_file_name(destination_file_name,
                                         IF file_number = NoneNum THEN 1 ELSE file_number)
    ELSE extract_file_name_from_source_full_path(source_full_path)

determine_destination_file_name(source_full_path, destination_file_name, file_number) ==
    IF TruthyStr(destination_file_name)
    THEN IF TruthyNum(file_number)
         THEN enumerate_destination_file_name(destination_file_name, file_number)
         ELSE destination_file_name
    ELSE extract_file_name_from_source_full_path(source_full_path)

clean_folder_name(folder_name) ==
    LET stripped == Strip(folder_name)
    IN  IF stripped # <<>> THEN normpath(stripped) ELSE stripped

combine_folder_and_file_name(folder_name, file_name) ==
    normpath(normpath(folder_name \o (IF folder_name # <<>> THEN <<SLASH>> ELSE <<>>) \o file_name))

\* download_file.py
determine_destination_name(destination_folder_name, destination_file_name, source_full_path, file_number) ==
    combine_folder_and_file_name(
        destination_folder_name,
        determine_destination_file_name(source_full_path, destination_file_name, file_number))

\* upload_file.py
determine_destination_full_path(destination_folder_name, destination_file_name, source_full_path, file_number) ==
    <<SLASH>> \o combine_folder_and_file_name(
        destination_folder_name,
        determine_destination_file_name(source_full_path, destination_file_name, file_number))

-----------------------------------------------------------------------------
(* Inputs *)

CHUNK_SIZE == 10 * 1024 * 1024

\* the most files a regular expression matches in a run
MaxFiles == 2

\* os.getcwd()
Cwd == <<"/", "w">>

\* --source-folder-name / --destination-folder-name
FolderArgs == { <<>>, <<"/", "d", "/">> }

\* --source-file-name (a file name in exact_match mode)
SourceFileArgs == { <<"x">>, <<"x", ".", "t">> }

\* --destination-file-name: absent, empty, without and with a '.', and with a
\* parent reference after the first '.'
DestinationFileArgs ==
    { NoneVal, <<>>, <<"o">>, <<"o", ".", "t">>, <<"o", ".", "/", ".", ".", "/", "p">> }

\* the paths a listing can return (two of them share their last component)
Files == { <<"/", "a", "/", "x", ".", "t">>, <<"/", "b", "/", "x", ".", "t">>, <<"/", "a", "/", "y">> }

\* lists of distinct paths, as a listing of a folder or a glob returns them
RECURSIVE DistinctSeqs(_, _)
DistinctSeqs(S, n) ==
    IF n = 0 THEN { <<>> }
    ELSE { <<>> } \cup { <<f>> \o t : f \in S, t \in DistinctSeqs(S, n - 1) }

IsDistinct(q) == \A i, j \in 1..Len(q) : i # j => q[i] # q[j]

MatchLists == { q \in DistinctSeqs(Files, MaxFiles) : IsDistinct(q) }

\* how a call of the SDK or of the local file system ends
Outcomes == { "ok", "api_error", "other_error", "io_error" }

Call(op, src, dst, ok) == [op |-> op, src |-> src, dst |-> dst, ok |-> ok]

IdleUp == [pc |-> "idle"]
IdleLs == [pc |-> "idle"]

\* the most whole chunks a file to upload holds
MaxChunks == 3

\* file sizes: at, next to and well off every multiple of CHUNK_SIZE
Sizes == { s \in { k * CHUNK_SIZE + d : k \in 0..MaxChunks, d \in { -1, 0, 1, 1024 } } : s >= 0 }

\* the most entries the provider returns in one page of a listing
MaxPage == 3

-----------------------------------------------------------------------------
(* main() of download_file.py and of upload_file.py *)

Init ==
    /\ script \in { "download", "upload" }
    /\ args \in [ source_file_name_match_type : { "exact_match", "regex_match" },
                  source_file_name : SourceFileArgs,
                  source_folder_name : FolderArgs,
                  destination_folder_name : FolderArgs,
                  destination_file_name : DestinationFileArgs ]
    /\ pc = "get_client"
    /\ client = FALSE
    /\ matching = <<>>
    /\ index = 0
    /\ transfers = <<>>
    /\ calls = <<>>
    /\ up = IdleUp
    /\ ls = IdleLs

\* main(): source_full_path
source_full_path ==
    IF script = "download"
    THEN combine_folder_and_file_name(clean_folder_name(args.source_folder_name),
                                      args.source_file_name)
    ELSE combine_folder_and_file_name(Cwd \o <<SLASH>> \o args.source_folder_name,
                                      args.source_file_name)

destination_folder_name == clean_folder_name(args.destination_folder_name)

\* get_dropbox_client: Dropbox(access_key) may raise before any call is made;
\* users_get_current_account may raise AuthError (printed, raised again) or
\* anything else (not caught); only a return hands main() the client
\* mutant: except AuthError prints and does not raise again
ClientReturnedAlways(outcome) == TRUE

\* ("io_error" stands for Dropbox(access_key) raising)
ClientReturned(outcome) == outcome = "ok"

get_dropbox_client(outcome) ==
    /\ calls' = IF outcome = "io_error" THEN calls
                ELSE Append(calls, Call("users_get_current_account", <<>>, <<>>, outcome = "ok"))
    /\ client' = ClientReturned(outcome)

MainGetClient ==
    /\ pc = "get_client"
    /\ \E outcome \in Outcomes :
          /\ get_dropbox_client(outcome)
          /\ pc' = IF ~ClientReturned(outcome) THEN "raised"
                   ELSE IF args.source_file_name_match_type = "regex_match" THEN "list"
                   ELSE "exact"
    /\ UNCHANGED <<script, args, matching, index, transfers, up, ls>>

\* download: find_dropbox_file_names (its first files_list_folder; the recursion
\* is SpecList's) and find_matching_files; upload: find_all_local_file_names
\* (glob, no SDK call) and find_all_file_matches
MainListAndMatch ==
    /\ pc = "list"
    /\ \E q \in MatchLists : matching' = q
    /\ calls' = IF script = "download"
                THEN LET cleaned == clean_folder_name(args.source_folder_name)
                         prefix == IF cleaned # <<>> /\ ~StartsWith(cleaned, SLASH)
                                   THEN <<SLASH>> \o cleaned ELSE cleaned
                     IN  Append(calls, Call("files_list_folder", prefix, <<>>, TRUE))
                ELSE calls
    /\ index' = 0
    /\ pc' = "loop"
    /\ UNCHANGED <<script, args, client, transfers, up, ls>>

\* download_dropbox_file: open(local_path, 'wb') and one files_download; every
\* exception is raised again
download_dropbox_file(file_name, destination_file_name, outcome) ==
    LET local_path == normpath(Cwd \o <<SLASH>> \o destination_file_name)
    IN  /\ transfers' = Append(transfers, [fn |-> "download_dropbox_file",
                                           src |-> file_name, dst |-> local_path])
        /\ calls' = IF outcome = "io_error" THEN calls
                    ELSE Append(calls, Call("files_download", file_name, local_path,
                                            outcome = "ok"))

\* upload_dropbox_file as main() sees it: os.path.getsize and open may raise;
\* the size picks files_upload or an upload session (SpecUpload has its calls)
upload_dropbox_file(source, destination_full_path, size, outcome) ==
    /\ transfers' = Append(transfers, [fn |-> "upload_dropbox_file",
                                       src |-> source, dst |-> destination_full_path])
    /\ calls' = IF outcome = "io_error" THEN calls
                ELSE Append(calls, Call(IF size <= CHUNK_SIZE THEN "files_upload"
                                        ELSE "files_upload_session",
                                        source, destination_full_path, outcome = "ok"))

\* does the transfer return to main() (or does its exception end the run)?
Returns(outcome) ==
    IF script = "download" THEN outcome = "ok" ELSE outcome \in { "ok", "api_error" }

\* one transfer of main(), of `source` with this file_number
Transfer(source, file_number, outcome) ==
    IF script = "download"
    THEN LET destination_name ==
                 determine_destination_name(destination_folder_name,
                                            args.destination_file_name, source, file_number)
             file_name == IF ~StartsWith(source, SLASH) THEN <<SLASH>> \o source ELSE source
         IN  download_dropbox_file(file_name, destination_name, outcome)
    ELSE LET destination_full_path ==
                 determine_destination_full_path(destination_folder_name,
                                                 args.destination_file_name, source, file_number)
         IN  \E size \in { CHUNK_SIZE, CHUNK_SIZE + 1 } :
                upload_dropbox_file(source, destination_full_path, size, outcome)

\* file_number of the regex_match loop: enumerate()'s index + 1
LoopFileNumber(i) == i + 1

MainLoopTransfer ==
    /\ pc = "loop"
    /\ index < Len(matching)
    /\ \E outcome \in Outcomes :
          /\ Transfer(matching[index + 1], LoopFileNumber(index), outcome)
          /\ pc' = IF Returns(outcome) THEN "loop" ELSE "raised"
    /\ index' = index + 1
    /\ UNCHANGED <<script, args, client, matching, up, ls>>

MainLoopEnd ==
    /\ pc = "loop"
    /\ index = Len(matching)
    /\ pc' = "done"
    /\ UNCHANGED <<script, args, client, matching, index, transfers, calls, up, ls>>

\* file_number of exact_match mode: the default, None
ExactFileNumber == NoneNum

MainExactTransfer ==
    /\ pc = "exact"
    /\ \E outcome \in Outcomes :
          /\ Transfer(source_full_path, ExactFileNumber, outcome)
          /\ pc' = IF Returns(outcome) THEN "done" ELSE "raised"
    /\ UNCHANGED <<script, args, client, matching, index, up, ls>>

Next ==
    \/ MainGetClient
    \/ MainListAndMatch
    \/ MainLoopTransfer
    \/ MainLoopEnd
    \/ MainExactTransfer

Spec == Init /\ [][Next]_vars

-----------------------------------------------------------------------------
(* upload_dropbox_file of upload_file.py, one SDK call per step *)

\* up.calls holds the SDK calls: the bytes sent are those of the file from
\* position `at`, `len` of them; `offset` is the offset handed to the SDK
UpCall(op, at, len, offset, ok) ==
    [op |-> op, at |-> at, len |-> len, offset |-> offset, ok |-> ok]

Min(a, b) == IF a < b THEN a ELSE b

\* len(f.read(CHUNK_SIZE)) with the file at position pos
ReadLen(file_size, pos) == Min(CHUNK_SIZE, file_size - pos)

\* mutant: < for <=
IsSmallFileStrict(file_size) == file_size < CHUNK_SIZE

\* upload_dropbox_file: os.path.getsize(source_full_path) <= CHUNK_SIZE
IsSmallFile(file_size) == file_size <= CHUNK_SIZE

\* mutant: < for <=
IsLastChunkStrict(file_size, pos) == (file_size - pos) < CHUNK_SIZE

\* upload_large_dropbox_file: (file_size - f.tell()) <= CHUNK_SIZE
IsLastChunk(file_size, pos) == (file_size - pos) <= CHUNK_SIZE

\* mutant: the cursor is not moved after an append
CursorAfterAppendStale(cursor_offset, pos) == cursor_offset

\* upload_large_dropbox_file: cursor.offset = f.tell() after an append
CursorAfterAppend(cursor_offset, pos) == pos

UploadOutcomes == { "ok", "api_error", "other_error" }

\* what follows the try block: except ApiError prints the failure and execution
\* goes on to the print after the with block; another exception leaves
AfterCall(u, outcome) ==
    IF outcome = "api_error"
    THEN [u EXCEPT !.pc = "done", !.printed = @ \o <<"Failed to upload", "successfully uploaded">>]
    ELSE [u EXCEPT !.pc = "raised"]

InitUpload ==
    /\ script = "upload"
    /\ args = [source_file_name_match_type |-> "exact_match"]
    /\ pc = "transfer"
    /\ client = TRUE
    /\ matching = <<>>
    /\ index = 0
    /\ transfers = <<>>
    /\ calls = <<>>
    /\ \E file_size \in Sizes :
          up = [pc |-> "upload_dropbox_file", file_size |-> file_size, pos |-> 0,
                cursor_offset |-> NoneNum, calls |-> <<>>, printed |-> <<>>]
    /\ ls = IdleLs

UploadDispatch ==
    /\ up.pc = "upload_dropbox_file"
    /\ up' = [up EXCEPT !.pc = IF IsSmallFile(up.file_size) THEN "small" ELSE "large"]
    /\ UNCHANGED <<script, args, pc, client, matching, index, transfers, calls, ls>>

UploadSmall ==
    /\ up.pc = "small"
    /\ \E outcome \in UploadOutcomes :
          LET n == ReadLen(up.file_size, up.pos)
              u == [up EXCEPT !.pos = @ + n,
                              !.calls = Append(@, UpCall("files_upload", up.pos, n, 0,
                                                         outcome = "ok"))]
          IN  up' = IF outcome = "ok"
                    THEN [u EXCEPT !.pc = "done", !.printed = Append(@, "successfully uploaded")]
                    ELSE AfterCall(u, outcome)
    /\ UNCHANGED <<script, args, pc, client, matching, index, transfers, calls, ls>>

UploadLargeStart ==
    /\ up.pc = "large"
    /\ \E outcome \in UploadOutcomes :
          LET n == ReadLen(up.file_size, up.pos)
              u == [up EXCEPT !.pos = @ + n,
                              !.calls = Append(@, UpCall("files_upload_session_start",
                                                         up.pos, n, 0, outcome = "ok"))]
          IN  up' = IF outcome = "ok"
                    THEN [u EXCEPT !.pc = "while", !.cursor_offset = u.pos]
                    ELSE AfterCall(u, outcome)
    /\ UNCHANGED <<script, args, pc, client, matching, index, transfers, calls, ls>>

UploadLargeFinish ==
    /\ up.pc = "while"
    /\ up.pos < up.file_size
    /\ IsLastChunk(up.file_size, up.pos)
    /\ \E outcome \in UploadOutcomes :
          LET n == ReadLen(up.file_size, up.pos)
              u == [up EXCEPT !.pos = @ + n,
                              !.calls = Append(@, UpCall("files_upload_session_finish",
                                                         up.pos, n, up.cursor_offset,
                                                         outcome = "ok"))]
          IN  up' = IF outcome = "ok" THEN u ELSE AfterCall(u, outcome)
    /\ UNCHANGED <<script, args, pc, client, matching, index, transfers, calls, ls>>

UploadLargeAppend ==
    /\ up.pc = "while"
    /\ up.pos < up.file_size
    /\ ~IsLastChunk(up.file_size, up.pos)
    /\ \E outcome \in UploadOutcomes :
          LET n == ReadLen(up.file_size, up.pos)
              u == [up EXCEPT !.pos = @ + n,
                              !.calls = Append(@, UpCall("files_upload_session_append",
                                                         up.pos, n, up.cursor_offset,
                                                         outcome = "ok"))]
          IN  up' = IF outcome = "ok"
                    THEN [u EXCEPT !.cursor_offset = CursorAfterAppend(@, u.pos)]
                    ELSE AfterCall(u, outcome)
    /\ UNCHANGED <<script, args, pc, client, matching, index, transfers, calls, ls>>

\* the while condition fails: the with block ends and success is printed
UploadLargeEnd ==
    /\ up.pc = "while"
    /\ ~(up.pos < up.file_size)
    /\ up' = [up EXCEPT !.pc = "done", !.printed = Append(@, "successfully uploaded")]
    /\ UNCHANGED <<script, args, pc, client, matching, index, transfers, calls, ls>>

NextUpload ==
    \/ UploadDispatch
    \/ UploadSmall
    \/ UploadLargeStart
    \/ UploadLargeFinish
    \/ UploadLargeAppend
    \/ UploadLargeEnd

SpecUpload == InitUpload /\ [][NextUpload]_vars

-----------------------------------------------------------------------------
(* find_dropbox_file_names of download_file.py, one files_list_folder per step *)

\* The remote folders: the root (''), /a in it and /a/b in /a.  Which of the
\* files exist is an input.
RootPath == <<>>
FolderA == <<"/", "a">>
FolderB == <<"/", "a", "/", "b">>

FileF == <<"/", "f">>
FileG == <<"/", "a", "/", "g">>
FileK == <<"/", "a", "/", "k">>
FileH == <<"/", "a", "/", "b", "/", "h">>
RemoteFiles == { FileF, FileG, FileK, FileH }

FileEntry(path) == [kind |-> "FileMetadata", path_lower |-> path]
FolderEntry(path) == [kind |-> "FolderMetadata", path_lower |-> path]

KeepPresent(entries, present) ==
    SelectSeq(entries, LAMBDA e : e.kind = "FolderMetadata" \/ e.path_lower \in present)

\* the entries of a remote folder, in the provider's order
FolderEntries(path, present) ==
    IF path = RootPath THEN KeepPresent(<<FileEntry(FileF), FolderEntry(FolderA)>>, present)
    ELSE IF path = FolderA
    THEN KeepPresent(<<FileEntry(FileG), FolderEntry(FolderB), FileEntry(FileK)>>, present)
    ELSE KeepPresent(<<FileEntry(FileH)>>, present)

\* client.files_list_folder(path): the first page of the listing (has_more is
\* set when entries remain; the function never reads it)
files_list_folder(path, present, page) ==
    LET all == FolderEntries(path, present)
    IN  SubSeq(all, 1, Min(page, Len(all)))

\* prefix = f'/{prefix}' if prefix and not prefix.startswith('/')
ListPrefix(prefix) ==
    IF TruthyStr(prefix) /\ ~StartsWith(prefix, SLASH) THEN <<SLASH>> \o prefix ELSE prefix

PathsOfKind(entries, kind) ==
    LET sel == SelectSeq(entries, LAMBDA e : e.kind = kind)
    IN  [i \in 1..Len(sel) |-> sel[i].path_lower]

\* ls.stack: one frame per active call, holding the folders it has still to
\* visit; ls.todo: the prefix of the call about to be made; ls.result: the
\* paths collected, in the order the returned list holds them
InitList ==
    /\ script = "download"
    /\ args = [source_file_name_match_type |-> "regex_match"]
    /\ pc = "list"
    /\ client = TRUE
    /\ matching = <<>>
    /\ index = 0
    /\ transfers = <<>>
    /\ calls = <<>>
    /\ up = IdleUp
    /\ \E present \in SUBSET RemoteFiles, page \in 1..MaxPage,
          prefix \in { <<>>, <<"a">>, FolderA, FolderB } :
          ls = [pc |-> "call", present |-> present, page |-> page, prefix |-> prefix,
                todo |-> prefix, stack |-> <<>>, result |-> <<>>, listed |-> <<>>,
                failed |-> FALSE]

\* a call of find_dropbox_file_names up to its loop over the folders
ListCall ==
    /\ ls.pc = "call"
    /\ LET path == ListPrefix(ls.todo)
       IN  \E ok \in BOOLEAN :
              IF ok
              THEN LET entries == files_list_folder(path, ls.present, ls.page)
                   IN  ls' = [ls EXCEPT
                                !.pc = "loop",
                                !.listed = Append(@, path),
                                !.result = @ \o PathsOfKind(entries, "FileMetadata"),
                                !.stack = Append(@, PathsOfKind(entries, "FolderMetadata"))]
              ELSE \* except Exception: return []
                   ls' = [ls EXCEPT !.pc = IF Len(ls.stack) = 0 THEN "done" ELSE "loop",
                                    !.listed = Append(@, path),
                                    !.failed = TRUE]
    /\ UNCHANGED <<script, args, pc, client, matching, index, transfers, calls, up>>

\* for folder in folders: the next folder is handed to a recursive call
ListRecurse ==
    /\ ls.pc = "loop"
    /\ Len(ls.stack) > 0
    /\ Len(ls.stack[Len(ls.stack)]) > 0
    /\ LET top == ls.stack[Len(ls.stack)]
       IN  ls' = [ls EXCEPT !.pc = "call", !.todo = Head(top),
                            !.stack[Len(ls.stack)] = Tail(top)]
    /\ UNCHANGED <<script, args, pc, client, matching, index, transfers, calls, up>>

\* the loop over the folders is over: return result
ListReturn ==
    /\ ls.pc = "loop"
    /\ Len(ls.stack) > 0
    /\ Len(ls.stack[Len(ls.stack)]) = 0
    /\ ls' = [ls EXCEPT !.stack = SubSeq(@, 1, Len(@) - 1),
                        !.pc = IF Len(ls.stack) = 1 THEN "done" ELSE "loop"]
    /\ UNCHANGED <<script, args, pc, client, matching, index, transfers, calls, up>>

NextList ==
    \/ ListCall
    \/ ListRecurse
    \/ ListReturn

SpecList == InitList /\ [][NextList]_vars

-----------------------------------------------------------------------------
(* Properties *)

TransferOps == { "files_list_folder", "files_download", "files_upload", "files_upload_session" }

SessionOps == { "files_upload_session_start", "files_upload_session_append",
                "files_upload_session_finish" }

RECURSIVE SumLen(_, _)
SumLen(cs, n) == IF n = 0 THEN 0 ELSE SumLen(cs, n - 1) + cs[n].len

AllOk(cs) == \A i \in 1..Len(cs) : cs[i].ok

\* ceil(file_size / CHUNK_SIZE)
Chunks(file_size) == (file_size + CHUNK_SIZE - 1) \div CHUNK_SIZE

FinishReturned == /\ Len(up.calls) > 0
                  /\ up.calls[Len(up.calls)].op = "files_upload_session_finish"
                  /\ up.calls[Len(up.calls)].ok

\* C1: a file larger than CHUNK_SIZE, uploaded with no SDK call raising, is sent
\* by one files_upload_session_start, then ceil(S / CHUNK_SIZE) - 2
\* files_upload_session_append, then one files_upload_session_finish; no call
\* follows a finish, and once the finish has returned the while condition is
\* false, so the loop ends.
C1_SessionCallSequence ==
    LET cs == up.calls
        S == up.file_size
    IN    /\ (up.pc = "done" /\ S > CHUNK_SIZE /\ AllOk(cs)) =>
                /\ Len(cs) = (Chunks(S) - 2) + 2
                /\ cs[1].op = "files_upload_session_start"
                /\ \A i \in 2..(Len(cs) - 1) : cs[i].op = "files_upload_session_append"
                /\ cs[Len(cs)].op = "files_upload_session_finish"
          /\ \A i \in 1..Len(cs) : cs[i].op = "files_upload_session_finish" => i = Len(cs)
          /\ FinishReturned => (up.pc \in { "while", "done" } /\ ~(up.pos < S))

C1_Witness ==
    /\ up.pc = "done"
    /\ up.file_size = 3 * CHUNK_SIZE + 1
    /\ AllOk(up.calls)
    /\ Len(up.calls) = 4
    /\ up.calls[3].op = "files_upload_session_append"

\* C2: in an upload session every append and the finish are handed, as offset,
\* the number of bytes the earlier calls sent; every chunk holds between 1 and
\* CHUNK_SIZE bytes and starts in the file where the chunk before it ended; when
\* the finish returns the chunks add up to the file.
C2_OffsetsAndChunks ==
    LET cs == up.calls
    IN    /\ \A i \in 1..Len(cs) :
                cs[i].op \in SessionOps =>
                   /\ cs[i].op # "files_upload_session_start" => cs[i].offset = SumLen(cs, i - 1)
                   /\ cs[i].len >= 1
                   /\ cs[i].len <= CHUNK_SIZE
                   /\ cs[i].at = SumLen(cs, i - 1)
          /\ FinishReturned => SumLen(cs, Len(cs)) = up.file_size

C2_Witness ==
    /\ FinishReturned
    /\ Len(up.calls) = 4
    /\ up.calls[4].offset = 3 * CHUNK_SIZE
    /\ up.calls[4].len = 1024

\* C3: a file of at most CHUNK_SIZE bytes is sent by exactly one files_upload
\* holding the whole file and by no session call; a larger file is sent by
\* session calls only.
C3_MethodBySize ==
    LET cs == up.calls
        S == up.file_size
    IN    /\ S <= CHUNK_SIZE =>
                /\ \A i \in 1..Len(cs) : cs[i].op = "files_upload"
                /\ Len(cs) <= 1
                /\ up.pc \in { "done", "raised" } =>
                      (Len(cs) = 1 /\ cs[1].at = 0 /\ cs[1].len = S)
          /\ S > CHUNK_SIZE =>
                /\ \A i \in 1..Len(cs) : cs[i].op \in SessionOps
                /\ up.pc \in { "done", "raised" } => Len(cs) >= 1

C3_Witness ==
    /\ up.pc = "done"
    /\ up.file_size = CHUNK_SIZE
    /\ Len(up.calls) = 1
    /\ up.calls[1].op = "files_upload"
    /\ up.calls[1].ok

InSeq(x, q) == \E i \in 1..Len(q) : q[i] = x

AuthReturnedBefore(i) ==
    \E j \in 1..(i - 1) : calls[j].op = "users_get_current_account" /\ calls[j].ok

\* C4: no listing, download or upload call is made unless
\* users_get_current_account returned earlier in the run; when
\* get_dropbox_client raises, main ends with no transfer made.
C4_AuthBeforeTransfer ==
    /\ \A i \in 1..Len(calls) : calls[i].op \in TransferOps => AuthReturnedBefore(i)
    /\ transfers # <<>> => AuthReturnedBefore(Len(calls) + 1)
    /\ (pc # "get_client" /\ ~AuthReturnedBefore(Len(calls) + 1)) =>
          /\ pc = "raised"
          /\ transfers = <<>>
          /\ \A i \in 1..Len(calls) : calls[i].op \notin TransferOps

C4_Witness ==
    /\ pc = "done"
    /\ Len(calls) = 4
    /\ calls[1].op = "users_get_current_account"
    /\ calls[2].op = "files_list_folder"
    /\ calls[3].op = "files_download"
    /\ calls[4].op = "files_download"

IsRegex == args.source_file_name_match_type = "regex_match"

\* C5: in regex_match mode the destinations of the files transferred in a run
\* are pairwise distinct.
C5_DistinctDestinations ==
    IsRegex =>
       \A i, j \in 1..Len(transfers) : i # j => transfers[i].dst # transfers[j].dst

\* r is the last path component of path: what follows its last '/'
IsLastComponent(r, path) ==
    /\ ~Contains(r, SLASH)
    /\ Len(r) <= Len(path)
    /\ SubSeq(path, Len(path) - Len(r) + 1, Len(path)) = r
    /\ Len(r) < Len(path) => path[Len(path) - Len(r)] = SLASH

\* the destination main() hands to the transfer for this file name
DestinationOf(file_name) ==
    LET joined == combine_folder_and_file_name(destination_folder_name, file_name)
    IN  IF script = "download" THEN normpath(Cwd \o <<SLASH>> \o joined)
        ELSE <<SLASH>> \o joined

\* C6: with no destination file name (None or '') determine_destination_file_name
\* gives the last path component of the source, whatever file_number is; with
\* one and no file_number it gives that name unchanged; in exact_match mode
\* main makes exactly one transfer, to the destination folder joined with it.
C6_DestinationFileName ==
    LET name == args.destination_file_name
    IN    /\ \A src \in Files \cup { source_full_path } :
                /\ ~TruthyStr(name) =>
                      \A n \in { NoneNum } \cup 0..(MaxFiles + 1) :
                         IsLastComponent(determine_destination_file_name(src, name, n), src)
                /\ TruthyStr(name) =>
                      determine_destination_file_name(src, name, NoneNum) = name
          /\ (~IsRegex /\ pc \in { "done", "raised" } /\ client) =>
                /\ Len(transfers) = 1
                /\ Len(SelectSeq(calls, LAMBDA c : c.op \in TransferOps)) <= 1
                /\ transfers[1].dst =
                      DestinationOf(IF TruthyStr(name) THEN name
                                    ELSE basename(source_full_path))
          /\ ~IsRegex => Len(transfers) <= 1

C6_Witness ==
    /\ pc = "done"
    /\ ~IsRegex
    /\ script = "upload"
    /\ args.destination_file_name = <<"o", ".", "t">>
    /\ args.destination_folder_name = <<"/", "d", "/">>
    /\ Len(transfers) = 1
    /\ transfers[1].dst = <<"/", "d", "/", "o", ".", "t">>

\* C7: in regex_match mode with a destination file name and exactly one file
\* matched, the file goes to the destination file name as given, no number
\* added.
C7_SingleMatchNotEnumerated ==
    (IsRegex /\ TruthyStr(args.destination_file_name)
        /\ Len(matching) = 1 /\ Len(transfers) = 1) =>
       transfers[1].dst = DestinationOf(args.destination_file_name)

\* is the file at `path` located under the folder `folder`, at any depth?
Under(path, folder) ==
    \/ folder = <<>>
    \/ /\ Len(path) > Len(folder)
       /\ SubSeq(path, 1, Len(folder)) = folder
       /\ path[Len(folder) + 1] = SLASH

\* C8: when every files_list_folder succeeds, find_dropbox_file_names returns
\* the path of every file under the prefix folder, each once, and nothing else.
C8_ListsEveryFileOnce ==
    (ls.pc = "done" /\ ~ls.failed) =>
       /\ { ls.result[i] : i \in 1..Len(ls.result) } =
             { f \in ls.present : Under(f, ListPrefix(ls.prefix)) }
       /\ IsDistinct(ls.result)

\* C9: the success message is printed only if files_upload or
\* files_upload_session_finish returned; when a call raises ApiError the failure
\* message is printed and the success message is not.
C9_SuccessOnlyWhenCompleted ==
    LET cs == up.calls
    IN    /\ InSeq("successfully uploaded", up.printed) =>
                /\ Len(cs) > 0
                /\ cs[Len(cs)].ok
                /\ cs[Len(cs)].op \in { "files_upload", "files_upload_session_finish" }
          /\ InSeq("Failed to upload", up.printed) =>
                ~InSeq("successfully uploaded", up.printed)

====
